---------------------------- MODULE Spec2Model ----------------------------
(***************************************************************************)
(* Model of mcpm::Matching (src/unnamed/part_000): Edmonds' blossom        *)
(* algorithm with primal-dual updates, as used by the line coverage        *)
(* library for minimum-cost perfect matching.                              *)
(*                                                                         *)
(* Indices are the source's: vertices and pseudo-vertices are 0..2n-1,     *)
(* edges are 0..m-1.  std::list and std::vector<T> of list type are        *)
(* sequences.  A double x is represented by the integer 2x (all costs are  *)
(* integers, every quantity of the algorithm is then a multiple of 1/2;    *)
(* the ghost variable `exact` records that no halving ever lost a bit).    *)
(***************************************************************************)
EXTENDS Integers, Sequences, FiniteSets, TLC

VARIABLES
    G,          \* const Graph & G : [nv, ne, edge, adjList, adjMat, edgeIndex]
    free,       \* std::list<int> free
    outer, deep, shallow, tip, active,
    type, forest, root,
    blocked, dual, slack, mate,
    perfect, forestList, visited,
    env,        \* the caller: calls it may still make, range of its costs
    pc,         \* position of the caller / of the running Solve call
    call,       \* which public entry point is running
    cost,       \* the caller's cost vector of the running call
    ret,        \* what the last call returned (or that it threw)
    hist        \* ghost: what happened during the running call

engine == <<free, outer, deep, shallow, tip, active, type, forest, root,
            blocked, dual, slack, mate, perfect, forestList, visited>>
vars == <<G, engine, env, pc, call, cost, ret, hist>>

EVEN == 2
ODD == 1
UNLABELED == 0

n == G.nv
m == G.ne

V2 == 0 .. (2 * n - 1)
Orig == 0 .. (n - 1)
Pseudo == n .. (2 * n - 1)
EdgeIdx == 0 .. (m - 1)

(***************************************************************************)
(* Numbers.  Dbl(x) is the representation of the double x.                 *)
(***************************************************************************)
Dbl(x) == x + x
Half(x) == x \div 2
GREATER(a, b) == a - b > 0

(***************************************************************************)
(* Graph (mcpm/graph.h): edge list in insertion order, adjacency lists in  *)
(* insertion order, adjacency matrix, edge index lookup.                   *)
(***************************************************************************)
GetEdge(e) == G.edge[e]
AdjMat(u, v) == G.adjMat[u][v]
GetEdgeIndex(u, v) == G.edgeIndex[u][v]
AdjList(u) == G.adjList[u]

(***************************************************************************)
(* The engine's fields as one record, so that the private methods are      *)
(* operators from state to state.                                          *)
(***************************************************************************)
St == [free |-> free, outer |-> outer, deep |-> deep, shallow |-> shallow,
       tip |-> tip, active |-> active, type |-> type, forest |-> forest,
       root |-> root, blocked |-> blocked, dual |-> dual, slack |-> slack,
       mate |-> mate, perfect |-> perfect, forestList |-> forestList,
       visited |-> visited, bsize |-> hist.bsize, exact |-> hist.exact,
       freeOk |-> hist.freeOk]

IsEdgeBlockedE(s, e) == GREATER(s.slack[e], 0)
IsEdgeBlocked(s, u, v) == GREATER(s.slack[GetEdgeIndex(u, v)], 0)
IsAdjacent(s, u, v) == AdjMat(u, v) /\ ~IsEdgeBlocked(s, u, v)

\* free.push_back(i); the ghost freeOk records that i was not free already
AddFreeBlossomIndex(s, i) ==
    [s EXCEPT !.free = Append(@, i),
              !.freeOk = @ /\ \A k \in 1 .. Len(s.free) : s.free[k] # i]

RECURSIVE FreeFrom(_)
FreeFrom(i) == IF i >= 2 * n THEN <<>> ELSE <<i>> \o FreeFrom(i + 1)
ClearBlossomIndices(s) == [s EXCEPT !.free = FreeFrom(n)]

Clear(s) ==
    [ClearBlossomIndices(s) EXCEPT
        !.outer = [i \in V2 |-> i],
        !.deep = [i \in V2 |-> IF i < n THEN <<i>> ELSE <<>>],
        !.shallow = [i \in V2 |-> <<>>],
        !.active = [i \in V2 |-> i < n],
        !.type = [i \in V2 |-> 0],
        !.forest = [i \in V2 |-> -1],
        !.root = [i \in V2 |-> i],
        !.blocked = [i \in V2 |-> FALSE],
        !.dual = [i \in V2 |-> 0],
        !.mate = [i \in V2 |-> -1],
        !.tip = [i \in V2 |-> i],
        !.slack = [e \in EdgeIdx |-> 0]]

\* outer[*jt] = x for every *jt of the list lst
RECURSIVE SetOuter(_, _, _, _)
SetOuter(s, lst, j, x) ==
    IF j > Len(lst) THEN s
    ELSE SetOuter([s EXCEPT !.outer[lst[j]] = x], lst, j + 1, x)

RECURSIVE DestroyBlossom(_, _)
RECURSIVE DestroyMembers(_, _, _)
DestroyMembers(s, t, k) ==
    IF k > Len(s.shallow[t]) THEN s
    ELSE LET x == s.shallow[t][k]
             s1 == [s EXCEPT !.outer[x] = x]
             s2 == SetOuter(s1, s1.deep[x], 1, x)
         IN  DestroyMembers(DestroyBlossom(s2, x), t, k + 1)

DestroyBlossom(s, t) ==
    IF t < n \/ (s.blocked[t] /\ GREATER(s.dual[t], 0)) THEN s
    ELSE LET s1 == DestroyMembers(s, t, 1)
             s2 == [s1 EXCEPT !.active[t] = FALSE, !.blocked[t] = FALSE]
             s3 == AddFreeBlossomIndex(s2, t)
         IN  [s3 EXCEPT !.mate[t] = -1]

RECURSIVE ResetForest(_, _)
ResetForest(s, i) ==
    IF i >= 2 * n THEN s
    ELSE LET s1 == [s EXCEPT !.forest[i] = -1, !.root[i] = i]
             s2 == IF i >= n /\ s1.active[i] /\ s1.outer[i] = i
                   THEN DestroyBlossom(s1, i) ELSE s1
         IN  ResetForest(s2, i + 1)

RECURSIVE ResetRoots(_, _)
ResetRoots(s, i) ==
    IF i >= n THEN s
    ELSE LET o == s.outer[i]
         IN  IF s.mate[o] = -1
             THEN ResetRoots(
                    [s EXCEPT !.type[o] = 2,
                              !.forestList = IF s.visited[o] = 0
                                             THEN Append(@, i) ELSE @,
                              !.visited[o] = 1], i + 1)
             ELSE ResetRoots([s EXCEPT !.type[o] = 0], i + 1)

Reset(s) ==
    LET s1 == ResetForest(s, 0)
        s2 == [s1 EXCEPT !.visited = [i \in V2 |-> 0], !.forestList = <<>>]
    IN  ResetRoots(s2, 0)

(***************************************************************************)
(* Expand: lines 174-242.                                                  *)
(***************************************************************************)
Elems(lst) == {lst[k] : k \in 1 .. Len(lst)}

\* the regular edge {p,q} of minimum index connecting u and v; <<-1,-1>> if none
MinIndexEdge(s, u, v) ==
    LET cand == {pq \in Elems(s.deep[u]) \X Elems(s.deep[v]) :
                    IsAdjacent(s, pq[1], pq[2])}
    IN  IF cand = {} THEN <<-1, -1>>
        ELSE CHOOSE pq \in cand :
                \A rs \in cand :
                    GetEdgeIndex(pq[1], pq[2]) <= GetEdgeIndex(rs[1], rs[2])

\* shallow[u] rotated until the member holding p is at the front
RotateToTip(s, u, p) ==
    LET sh == s.shallow[u]
        k == CHOOSE i \in 1 .. Len(sh) :
                /\ p \in Elems(s.deep[sh[i]])
                /\ \A j \in 1 .. (i - 1) : p \notin Elems(s.deep[sh[j]])
    IN  SubSeq(sh, k, Len(sh)) \o SubSeq(sh, 1, k - 1)

\* mate[*it] = *itnext, mate[*itnext] = *it along the odd circuit, from position k
RECURSIVE MateCircuit(_, _, _)
MateCircuit(s, sh, k) ==
    IF k > Len(sh) THEN s
    ELSE MateCircuit([s EXCEPT !.mate[sh[k]] = sh[k + 1],
                               !.mate[sh[k + 1]] = sh[k]], sh, k + 2)

RECURSIVE OuterMembers(_, _, _)
OuterMembers(s, sh, k) ==
    IF k > Len(sh) THEN s
    ELSE LET x == sh[k]
             s1 == [s EXCEPT !.outer[x] = x]
         IN  OuterMembers(SetOuter(s1, s1.deep[x], 1, x), sh, k + 1)

RECURSIVE Expand(_, _, _)
RECURSIVE ExpandMembers(_, _, _, _)
ExpandMembers(s, u, k, expandBlocked) ==
    IF k > Len(s.shallow[u]) THEN s
    ELSE ExpandMembers(Expand(s, s.shallow[u][k], expandBlocked),
                       u, k + 1, expandBlocked)

\* lines 213-240: sh is shallow[u] with the new tip at the front
ExpandCircuit(s, u, sh, expandBlocked) ==
    ExpandMembers(
        AddFreeBlossomIndex(
            [OuterMembers(
                MateCircuit([[s EXCEPT !.shallow[u] = sh]
                                EXCEPT !.mate[sh[1]] = s.mate[u]], sh, 2),
                sh, 1) EXCEPT !.active[u] = FALSE], u),
        u, 1, expandBlocked)

\* faulty variant: a blocked blossom is expanded like any other
ExpandMated_Blocked(s, u, p, expandBlocked) ==
    IF u < n THEN s
    ELSE ExpandCircuit(s, u, RotateToTip(s, u, p), expandBlocked)

\* lines 196-211: the early return, else the new tip is the member holding p
ExpandMated(s, u, p, expandBlocked) ==
    IF u < n \/ (s.blocked[u] /\ ~expandBlocked) THEN s
    ELSE ExpandCircuit(s, u, RotateToTip(s, u, p), expandBlocked)

\* lines 193-194: mate[u] = q; mate[v] = p, for the edge pq = <<p, q>>
ExpandEdge(s, u, v, pq, expandBlocked) ==
    ExpandMated([[s EXCEPT !.mate[u] = pq[2]] EXCEPT !.mate[v] = pq[1]],
                u, pq[1], expandBlocked)

\* lines 177-191, v = outer[mate[u]]
ExpandTowards(s, u, v, expandBlocked) ==
    ExpandEdge(s, u, v, MinIndexEdge(s, u, v), expandBlocked)

Expand(s, u, expandBlocked) ==
    ExpandTowards(s, u, s.outer[s.mate[u]], expandBlocked)

(***************************************************************************)
(* Augment: lines 246-279.                                                 *)
(***************************************************************************)
MateAndExpand(s, p, q) ==
    Expand(Expand([[s EXCEPT !.mate[p] = q] EXCEPT !.mate[q] = p], p, FALSE),
           q, FALSE)

\* while(fp != -1) { q = outer[forest[p]]; p = outer[forest[q]]; ... }
RECURSIVE AugmentPath(_, _, _)
\* lines 259-264 for the new q and p
AugmentPair(s, q, p) ==
    AugmentPath(MateAndExpand(s, p, q), p, s.forest[p])

\* line 258 for the new q
AugmentHop(s, q) == AugmentPair(s, q, s.outer[s.forest[q]])

AugmentPath(s, p, fp) ==
    IF fp = -1 THEN s ELSE AugmentHop(s, s.outer[s.forest[p]])

\* lines 267-278: from outv to its root
AugmentFromV(s, q) == AugmentPath(s, q, s.forest[q])

\* lines 251-278 for p = outer[u], q = outer[v]
AugmentOuter(s, p, q) ==
    AugmentFromV(AugmentPath(MateAndExpand(s, p, q), p, s.forest[p]), q)

Augment(s, u, v) == AugmentOuter(s, s.outer[u], s.outer[v])

(***************************************************************************)
(* Blossom: lines 306-364.                                                 *)
(***************************************************************************)
\* the outer vertices on the forest path from u_ to its root (isInPath)
RECURSIVE PathToRoot(_, _)
PathToRoot(s, u_) ==
    IF u_ = -1 THEN {}
    ELSE {s.outer[u_]} \cup PathToRoot(s, s.forest[s.outer[u_]])

\* while(not isInPath[v_]) v_ = outer[forest[v_]]
RECURSIVE FindTip(_, _, _)
FindTip(s, isInPath, v_) ==
    IF v_ \in isInPath THEN v_ ELSE FindTip(s, isInPath, s.outer[s.forest[v_]])

\* circuit: push_front from outer[u] up to the tip
RECURSIVE CircuitUp(_, _, _)
CircuitUp(s, u_, tp) ==
    IF u_ = tp THEN <<u_>>
    ELSE CircuitUp(s, s.outer[s.forest[u_]], tp) \o <<u_>>

\* faulty variant: the path from outer[v] is left out of the circuit
CircuitDown_Empty(s, v_, tp) == <<>>

\* push_back from outer[v] up to, and without, the tip
RECURSIVE CircuitDown(_, _, _)
CircuitDown(s, v_, tp) ==
    IF v_ = tp THEN <<>>
    ELSE <<v_>> \o CircuitDown(s, s.outer[s.forest[v_]], tp)

RECURSIVE BuildDeep(_, _, _, _)
BuildDeep(s, t, sh, k) ==
    IF k > Len(sh) THEN s
    ELSE LET u_ == sh[k]
             s1 == [s EXCEPT !.outer[u_] = t]
             s2 == [s1 EXCEPT !.deep[t] = @ \o s1.deep[u_]]
         IN  BuildDeep(SetOuter(s2, s2.deep[u_], 1, t), t, sh, k + 1)

\* faulty variant: the index is read at the front, the back is popped
GetFreeBlossomIndex_Front(s) == s.free[1]

\* line 563: free.back()
GetFreeBlossomIndex(s) == s.free[Len(s.free)]

\* returns the state; the new blossom is the index GetFreeBlossomIndex(s)
\* lines 356-361
BlossomLabel(s, t, tp) ==
    [s EXCEPT !.forest[t] = s.forest[tp],
              !.type[t] = EVEN,
              !.root[t] = s.root[tp],
              !.active[t] = TRUE,
              !.outer[t] = t,
              !.mate[t] = s.mate[tp],
              !.bsize = IF Len(s.deep[t]) > @ THEN Len(s.deep[t]) ELSE @]

\* lines 333-354 for the odd circuit sh
BlossomCircuit(s, t, tp, sh) ==
    BlossomLabel(
        BuildDeep([s EXCEPT !.tip[t] = tp, !.shallow[t] = sh, !.deep[t] = <<>>],
                  t, sh, 1),
        t, tp)

\* lines 325-344 for the tip tp
BlossomTip(s, u, v, t, tp) ==
    BlossomCircuit(s, t, tp,
        CircuitUp(s, s.outer[u], tp) \o CircuitDown(s, s.outer[v], tp))

\* lines 309-321 for the new index t
BlossomAt(s, u, v, t) ==
    BlossomTip(s, u, v, t, FindTip(s, PathToRoot(s, u), s.outer[v]))

\* line 307; the ghost freeOk records that the free list was not empty and
\* the index taken is not that of an active blossom
Blossom(s, u, v) ==
    BlossomAt([s EXCEPT !.free = SubSeq(@, 1, Len(@) - 1),
                        !.freeOk = /\ @ /\ s.free # <<>>
                                   /\ ~s.active[GetFreeBlossomIndex(s)]],
              u, v, GetFreeBlossomIndex(s))

(***************************************************************************)
(* Grow: lines 93-170.  One iteration of while(!forestList.empty()) is     *)
(* GrowScan; it ends by exhausting deep[w], by Augment or by Blossom.      *)
(***************************************************************************)
\* lines 123-136: v is unlabeled, the forest grows by v and its mate
GrowTree(s, u, v) ==
    LET vm == s.mate[s.outer[v]]
        ov == s.outer[v]
        ovm == s.outer[vm]
        s1 == [s EXCEPT !.forest[ov] = u, !.type[ov] = ODD,
                        !.root[ov] = s.root[s.outer[u]]]
        s2 == [s1 EXCEPT !.forest[ovm] = v, !.type[ovm] = EVEN,
                         !.root[ovm] = s1.root[s1.outer[u]]]
    IN  IF s2.visited[ovm] = 0
        THEN [s2 EXCEPT !.forestList = Append(@, vm), !.visited[ovm] = 1]
        ELSE s2

\* faulty variant: an edge between two EVEN vertices of one tree is skipped, no
\* blossom is contracted
RECURSIVE ScanAdj_NoBlossom(_, _, _)
ScanAdj_NoBlossom(s, u, j) ==
    IF j > Len(AdjList(u)) THEN [st |-> s, ev |-> "none"]
    ELSE LET v == AdjList(u)[j]
         IN  IF IsEdgeBlocked(s, u, v) THEN ScanAdj_NoBlossom(s, u, j + 1)
             ELSE IF s.type[s.outer[v]] = ODD THEN ScanAdj_NoBlossom(s, u, j + 1)
             ELSE IF s.type[s.outer[v]] # EVEN
                  THEN ScanAdj_NoBlossom(GrowTree(s, u, v), u, j + 1)
             ELSE IF s.root[s.outer[v]] # s.root[s.outer[u]]
                  THEN [st |-> Augment(s, u, v), ev |-> "augment"]
             ELSE ScanAdj_NoBlossom(s, u, j + 1)

\* the inner for loop over AdjList(u), from position j
RECURSIVE ScanAdj(_, _, _)
ScanAdj(s, u, j) ==
    IF j > Len(AdjList(u)) THEN [st |-> s, ev |-> "none"]
    ELSE LET v == AdjList(u)[j]
         IN  IF IsEdgeBlocked(s, u, v) THEN ScanAdj(s, u, j + 1)
             ELSE IF s.type[s.outer[v]] = ODD THEN ScanAdj(s, u, j + 1)
             ELSE IF s.type[s.outer[v]] # EVEN
                  THEN ScanAdj(GrowTree(s, u, v), u, j + 1)
             ELSE IF s.root[s.outer[v]] # s.root[s.outer[u]]
                  THEN [st |-> Augment(s, u, v), ev |-> "augment"]
             ELSE IF s.outer[u] # s.outer[v]
                  THEN LET b == GetFreeBlossomIndex(s)
                           s1 == Blossom(s, u, v)
                       IN  [st |-> [s1 EXCEPT !.forestList = <<b>> \o @,
                                              !.visited[b] = 1],
                            ev |-> "blossom"]
             ELSE ScanAdj(s, u, j + 1)

\* the for loop over deep[w], from position i
RECURSIVE ScanDeep(_, _, _)
\* line 161: if(cont) break, after the scan r of the neighbours of deep[w][i]
ScanDeepNext(r, w, i) ==
    IF r.ev # "none" THEN r ELSE ScanDeep(r.st, w, i + 1)

ScanDeep(s, w, i) ==
    IF i > Len(s.deep[w]) THEN [st |-> s, ev |-> "none"]
    ELSE ScanDeepNext(ScanAdj(s, s.deep[w][i], 1), w, i)

GrowScan(s) ==
    LET w == s.outer[Head(s.forestList)]
    IN  ScanDeep([s EXCEPT !.forestList = Tail(@)], w, 1)

\* faulty variant: the matching always counts as perfect
CheckPerfect_Always(s) == [s EXCEPT !.perfect = TRUE]

\* lines 166-169
CheckPerfect(s) ==
    [s EXCEPT !.perfect = \A i \in Orig : s.mate[s.outer[i]] # -1]

(***************************************************************************)
(* UpdateDualCosts: lines 366-443.                                         *)
(***************************************************************************)
MinOf(S) == CHOOSE x \in S : \A y \in S : x <= y

\* edges between an EVEN and an UNLABELED outer vertex (line 373)
EvenUnlabeled(s, i) ==
    LET tu == s.type[s.outer[GetEdge(i)[1]]]
        tv == s.type[s.outer[GetEdge(i)[2]]]
    IN  (tu = EVEN /\ tv = UNLABELED) \/ (tv = EVEN /\ tu = UNLABELED)

\* edges between two distinct EVEN outer vertices (line 379)
EvenEven(s, i) ==
    LET u == GetEdge(i)[1]
        v == GetEdge(i)[2]
    IN  /\ ~EvenUnlabeled(s, i)
        /\ s.outer[u] # s.outer[v]
        /\ s.type[s.outer[u]] = EVEN /\ s.type[s.outer[v]] = EVEN

\* faulty variant: the step between two EVEN vertices is not halved
DualStep_NoHalf(s) ==
    LET S1 == {s.slack[i] : i \in {j \in EdgeIdx : EvenUnlabeled(s, j)}}
        S2 == {s.slack[i] : i \in {j \in EdgeIdx : EvenEven(s, j)}}
        S3 == {s.dual[i] : i \in {j \in Pseudo :
                    s.active[j] /\ j = s.outer[j] /\ s.type[s.outer[j]] = ODD}}
        e1 == IF S1 # {} THEN MinOf(S1) ELSE 0
        e2 == IF S2 # {} THEN MinOf(S2) ELSE 0
        e3 == IF S3 # {} THEN MinOf(S3) ELSE 0
        ea == IF S1 # {} THEN e1 ELSE IF S2 # {} THEN e2 ELSE IF S3 # {} THEN e3 ELSE 0
        eb == IF GREATER(ea, e2) /\ S2 # {} THEN e2 ELSE ea
        ec == IF GREATER(eb, e3) /\ S3 # {} THEN e3 ELSE eb
    IN  [e |-> ec, exact |-> TRUE]

\* faulty variant: the duals never move
DualStep_Zero(s) == [e |-> 0, exact |-> TRUE]

\* lines 367-400: the step e, with the candidates it was chosen from
DualStep(s) ==
    LET S1 == {s.slack[i] : i \in {j \in EdgeIdx : EvenUnlabeled(s, j)}}
        S2 == {s.slack[i] : i \in {j \in EdgeIdx : EvenEven(s, j)}}
        S3 == {s.dual[i] : i \in {j \in Pseudo :
                    s.active[j] /\ j = s.outer[j] /\ s.type[s.outer[j]] = ODD}}
        inite1 == S1 # {}
        inite2 == S2 # {}
        inite3 == S3 # {}
        e1 == IF inite1 THEN MinOf(S1) ELSE 0
        e2 == IF inite2 THEN MinOf(S2) ELSE 0
        e3 == IF inite3 THEN MinOf(S3) ELSE 0
        ea == IF inite1 THEN e1 ELSE IF inite2 THEN e2 ELSE IF inite3 THEN e3 ELSE 0
        eb == IF GREATER(ea, Half(e2)) /\ inite2 THEN Half(e2) ELSE ea
        ec == IF GREATER(eb, e3) /\ inite3 THEN e3 ELSE eb
    IN  [e |-> ec, exact |-> e2 % 2 = 0]

\* lines 413-427
NewSlack(s, e, i) ==
    LET u == GetEdge(i)[1]
        v == GetEdge(i)[2]
        tu == s.type[s.outer[u]]
        tv == s.type[s.outer[v]]
    IN  IF s.outer[u] # s.outer[v]
        THEN IF tu = EVEN /\ tv = EVEN THEN s.slack[i] - 2 * e
             ELSE IF tu = ODD /\ tv = ODD THEN s.slack[i] + 2 * e
             ELSE IF (tv = UNLABELED /\ tu = EVEN) \/ (tu = UNLABELED /\ tv = EVEN)
                  THEN s.slack[i] - e
             ELSE IF (tv = UNLABELED /\ tu = ODD) \/ (tu = UNLABELED /\ tv = ODD)
                  THEN s.slack[i] + e
             ELSE s.slack[i]
        ELSE s.slack[i]

\* faulty variant: the dual of an ODD vertex is not decreased
NewDual_OddKept(s, e, i) ==
    IF i # s.outer[i] THEN s.dual[i]
    ELSE IF s.active[i] /\ s.type[s.outer[i]] = EVEN THEN s.dual[i] + e
    ELSE s.dual[i]

\* lines 402-411
NewDual(s, e, i) ==
    IF i # s.outer[i] THEN s.dual[i]
    ELSE IF s.active[i] /\ s.type[s.outer[i]] = EVEN THEN s.dual[i] + e
    ELSE IF s.active[i] /\ s.type[s.outer[i]] = ODD THEN s.dual[i] - e
    ELSE s.dual[i]

\* lines 428-442, from pseudo-vertex i
RECURSIVE Unblock(_, _)
Unblock(s, i) ==
    IF i >= 2 * n THEN s
    ELSE IF GREATER(s.dual[i], 0)
         THEN Unblock([s EXCEPT !.blocked[i] = TRUE], i + 1)
    ELSE IF s.active[i] /\ s.blocked[i]
         THEN IF s.mate[i] = -1
              THEN Unblock(DestroyBlossom(s, i), i + 1)
              ELSE Unblock(Expand([s EXCEPT !.blocked[i] = FALSE], i, FALSE), i + 1)
    ELSE Unblock(s, i + 1)

UpdateDualCosts(s) ==
    LET d == DualStep(s)
        s1 == [s EXCEPT !.dual = [i \in V2 |-> NewDual(s, d.e, i)],
                        !.exact = @ /\ d.exact]
        s2 == [s1 EXCEPT !.slack = [i \in EdgeIdx |-> NewSlack(s1, d.e, i)]]
    IN  Unblock(s2, n)

(***************************************************************************)
(* Heuristic: lines 493-532.  BinaryHeap (mcpm/binary_heap.h) is a min-    *)
(* heap on (key, id); equal keys leave it by increasing id.                *)
(***************************************************************************)
Degree(s) ==
    [v \in Orig |->
        Cardinality({i \in EdgeIdx : ~IsEdgeBlockedE(s, i) /\
                        (GetEdge(i)[1] = v \/ GetEdge(i)[2] = v)})]

DeleteMin(B, key) ==
    CHOOSE u \in B : \A w \in B : key[u] < key[w] \/ (key[u] = key[w] /\ u <= w)

\* lines 514-525: the unmatched neighbour of u of minimum degree, or -1
RECURSIVE MinNeighbour(_, _, _, _, _)
MinNeighbour(s, degree, u, j, min) ==
    IF j > Len(AdjList(u)) THEN min
    ELSE LET v == AdjList(u)[j]
         IN  IF IsEdgeBlocked(s, u, v) \/ s.outer[u] = s.outer[v]
                   \/ s.mate[s.outer[v]] # -1
             THEN MinNeighbour(s, degree, u, j + 1, min)
             ELSE IF min = -1 \/ degree[v] < degree[min]
                  THEN MinNeighbour(s, degree, u, j + 1, v)
                  ELSE MinNeighbour(s, degree, u, j + 1, min)

\* faulty variant: only one side of a new pair records its mate
RECURSIVE HeuristicLoop_OneSided(_, _, _)
HeuristicLoop_OneSided(s, degree, B) ==
    IF B = {} THEN s
    ELSE LET u == DeleteMin(B, degree)
             min == IF s.mate[s.outer[u]] = -1
                    THEN MinNeighbour(s, degree, u, 1, -1) ELSE -1
             s1 == IF min # -1
                   THEN [s EXCEPT !.mate[s.outer[u]] = min]
                   ELSE s
         IN  HeuristicLoop_OneSided(s1, degree, B \ {u})

RECURSIVE HeuristicLoop(_, _, _)
HeuristicLoop(s, degree, B) ==
    IF B = {} THEN s
    ELSE LET u == DeleteMin(B, degree)
             min == IF s.mate[s.outer[u]] = -1
                    THEN MinNeighbour(s, degree, u, 1, -1) ELSE -1
             s1 == IF min # -1
                   THEN LET a == [s EXCEPT !.mate[s.outer[u]] = min]
                        IN  [a EXCEPT !.mate[a.outer[min]] = u]
                   ELSE s
         IN  HeuristicLoop(s1, degree, B \ {u})

Heuristic(s) == HeuristicLoop(s, Degree(s), Orig)

(***************************************************************************)
(* PositiveCosts (lines 535-543), RetrieveMatching (lines 545-560).        *)
(***************************************************************************)
RECURSIVE MinEdgeFrom(_, _, _)
MinEdgeFrom(s, i, minEdge) ==
    IF i >= m THEN minEdge
    ELSE MinEdgeFrom(s, i + 1,
            IF GREATER(minEdge - s.slack[i], 0) THEN s.slack[i] ELSE minEdge)

\* faulty variant: negative costs are left as they are
PositiveCosts_None(s) == s

PositiveCosts(s) ==
    LET minEdge == MinEdgeFrom(s, 0, 0)
    IN  [s EXCEPT !.slack = [i \in EdgeIdx |-> s.slack[i] - minEdge]]

RECURSIVE ExpandAll(_, _)
ExpandAll(s, i) ==
    IF i >= 2 * n THEN s
    ELSE IF s.active[i] /\ s.mate[i] # -1 /\ s.outer[i] = i
         THEN ExpandAll(Expand(s, i, TRUE), i + 1)
         ELSE ExpandAll(s, i + 1)

RECURSIVE MatchedFrom(_, _)
MatchedFrom(s, i) ==
    IF i >= m THEN <<>>
    ELSE (IF s.mate[GetEdge(i)[1]] = GetEdge(i)[2] THEN <<i>> ELSE <<>>)
         \o MatchedFrom(s, i + 1)

\* faulty variant: the blossoms left are not expanded
RetrieveMatching_NoExpand(s) == s

\* the state after the expansions; the returned list is MatchedFrom(that, 0)
RetrieveMatching(s) == ExpandAll(s, 0)

RECURSIVE SumCost(_, _, _)
SumCost(c, lst, k) ==
    IF k > Len(lst) THEN 0 ELSE c[lst[k]] + SumCost(c, lst, k + 1)

\* lines 69-74
DualObj(s) ==
    LET RECURSIVE Sum(_)
        Sum(i) == IF i >= 2 * n THEN 0
                  ELSE (IF i < n THEN s.dual[i]
                        ELSE IF s.blocked[i] THEN s.dual[i] ELSE 0) + Sum(i + 1)
    IN  Sum(0)

(***************************************************************************)
(* The public methods from entry to return as operators (lines 38-85): the *)
(* steps of the state machine below, composed.                             *)
(***************************************************************************)
RECURSIVE GrowLoop(_)
GrowLoop(s) ==
    IF s.forestList = <<>> THEN CheckPerfect(s)
    ELSE LET r == GrowScan(s)
         IN  GrowLoop(IF r.ev = "augment" THEN Reset(r.st) ELSE r.st)

Grow(s) == GrowLoop(Reset(s))

\* the state SolveMaximumMatching leaves; it returns MatchedFrom(that, 0)
SolveMaximumMatching(s) == RetrieveMatching(Grow(Clear(s)))

\* lines 52-61
RECURSIVE PrimalDualLoop(_)
PrimalDualLoop(s) ==
    IF s.perfect THEN s
    ELSE PrimalDualLoop(Reset(UpdateDualCosts(Grow(Heuristic(s)))))

SolveMinimumCostPerfectMatching(s, c) ==
    LET s1 == SolveMaximumMatching(s)
    IN  IF ~s1.perfect THEN [kind |-> "error"]
        ELSE LET s2 == PositiveCosts([Clear(s1) EXCEPT !.slack = c])
                 s3 == PrimalDualLoop([s2 EXCEPT !.perfect = FALSE])
                 s4 == RetrieveMatching(s3)
                 matching == MatchedFrom(s4, 0)
             IN  [kind |-> "pair", matching |-> matching,
                  obj |-> SumCost(c, matching, 1), dualObj |-> DualObj(s4)]

\* the engine as the constructor leaves it (lines 14-30)
NewMatching ==
    [free |-> <<>>, outer |-> [i \in V2 |-> 0], deep |-> [i \in V2 |-> <<>>],
     shallow |-> [i \in V2 |-> <<>>], tip |-> [i \in V2 |-> 0],
     active |-> [i \in V2 |-> FALSE], type |-> [i \in V2 |-> 0],
     forest |-> [i \in V2 |-> 0], root |-> [i \in V2 |-> 0],
     blocked |-> [i \in V2 |-> FALSE], dual |-> [i \in V2 |-> 0],
     slack |-> [e \in EdgeIdx |-> 0], mate |-> [i \in V2 |-> 0],
     perfect |-> FALSE, forestList |-> <<>>, visited |-> [i \in V2 |-> 0],
     bsize |-> 0, exact |-> TRUE, freeOk |-> TRUE]

(***************************************************************************)
(* The graphs and cost vectors the engine is run on.                       *)
(***************************************************************************)
MaxN == 4          \* every graph on up to MaxN vertices
NegCosts == 1
MaxCost == 2       \* every cost vector with entries in -NegCosts..MaxCost
MaxCalls == 1      \* Solve calls made on one Matching instance
ReuseCalls == 2    \* the same, when the instance is reused
ReuseMaxCost == 1  \* and the cost entries are then in 0..ReuseMaxCost

\* Graph(n, edges): AddEdge(u, v) for the pairs of es, in order
MkGraph(nv, es) ==
    [nv |-> nv, ne |-> Len(es),
     edge |-> [e \in 0 .. (Len(es) - 1) |-> es[e + 1]],
     adjList |-> [u \in 0 .. (nv - 1) |->
        LET RECURSIVE From(_)
            From(k) == IF k > Len(es) THEN <<>>
                       ELSE (IF es[k][1] = u THEN <<es[k][2]>>
                             ELSE IF es[k][2] = u THEN <<es[k][1]>> ELSE <<>>)
                            \o From(k + 1)
        IN  From(1)],
     adjMat |-> [u \in 0 .. (nv - 1) |-> [v \in 0 .. (nv - 1) |->
        \E k \in 1 .. Len(es) : es[k] = <<u, v>> \/ es[k] = <<v, u>>]],
     edgeIndex |-> [u \in 0 .. (nv - 1) |-> [v \in 0 .. (nv - 1) |->
        IF \E k \in 1 .. Len(es) : es[k] = <<u, v>> \/ es[k] = <<v, u>>
        THEN (CHOOSE k \in 1 .. Len(es) : es[k] = <<u, v>> \/ es[k] = <<v, u>>) - 1
        ELSE -1]]]

\* the pairs u < v < k in lexicographic order
RECURSIVE PairsFrom(_, _, _)
PairsFrom(k, u, v) ==
    IF u >= k - 1 THEN <<>>
    ELSE IF v >= k THEN PairsFrom(k, u + 1, u + 2)
    ELSE <<<<u, v>>>> \o PairsFrom(k, u, v + 1)

\* every subsequence of a sequence
RECURSIVE SubSeqs(_)
SubSeqs(sq) ==
    IF sq = <<>> THEN {<<>>}
    ELSE LET rest == SubSeqs(Tail(sq))
         IN  rest \cup {<<Head(sq)>> \o r : r \in rest}

GraphsOn(k) == {MkGraph(k, es) : es \in SubSeqs(PairsFrom(k, 0, 1))}
SmallGraphs == UNION {GraphsOn(k) : k \in 1 .. MaxN}

K4 == MkGraph(4, PairsFrom(4, 0, 1))
K3 == MkGraph(3, PairsFrom(3, 0, 1))
\* the 5-cycle 0-1-2-3-4 and vertex 5 joined to the non-adjacent 0 and 2
Cycle5Plus == MkGraph(6, << <<0,1>>, <<1,2>>, <<2,3>>, <<3,4>>, <<4,0>>,
                            <<5,0>>, <<5,2>> >>)
Cycle5PlusCost == [e \in 0 .. 6 |-> IF e < 5 THEN 1 ELSE 10]
K4Cost == [e \in 0 .. 5 |-> e + 1]

\* a triangle that is contracted and blocked first, then a member of the
\* odd circuit of a second blossom
Nested6 == MkGraph(6, << <<0,1>>, <<1,2>>, <<2,0>>, <<2,3>>, <<3,4>>, <<4,0>>,
                         <<5,3>>, <<5,4>>, <<5,1>> >>)
Nested6Cost == <<0, 0, 0, 0, 0, 1, 0, 1, 2>>

\* the (graph, cost) pairs of the concrete scenarios
Scenarios == {<<K4, K4Cost>>, <<Cycle5Plus, Cycle5PlusCost>>,
              <<Nested6, [e \in 0 .. 8 |-> Nested6Cost[e + 1]]>>}

\* every cost vector in range on a small graph, and the scenarios' own
CostVectors(g, lo, hi) ==
    (IF g.nv <= MaxN THEN [0 .. (g.ne - 1) -> lo .. hi] ELSE {})
        \cup {sc[2] : sc \in {x \in Scenarios : x[1] = g}}

(***************************************************************************)
(* The state machine.                                                      *)
(***************************************************************************)
Commit(s) ==
    /\ free' = s.free /\ outer' = s.outer /\ deep' = s.deep
    /\ shallow' = s.shallow /\ tip' = s.tip /\ active' = s.active
    /\ type' = s.type /\ forest' = s.forest /\ root' = s.root
    /\ blocked' = s.blocked /\ dual' = s.dual /\ slack' = s.slack
    /\ mate' = s.mate /\ perfect' = s.perfect
    /\ forestList' = s.forestList /\ visited' = s.visited

\* the constructor, lines 14-30: value-initialized vectors, empty lists;
\* `perfect` is not initialized
Constructed(g) ==
    /\ G = g
    /\ free = <<>>
    /\ outer = [i \in 0 .. (2 * g.nv - 1) |-> 0]
    /\ deep = [i \in 0 .. (2 * g.nv - 1) |-> <<>>]
    /\ shallow = [i \in 0 .. (2 * g.nv - 1) |-> <<>>]
    /\ tip = [i \in 0 .. (2 * g.nv - 1) |-> 0]
    /\ active = [i \in 0 .. (2 * g.nv - 1) |-> FALSE]
    /\ type = [i \in 0 .. (2 * g.nv - 1) |-> 0]
    /\ forest = [i \in 0 .. (2 * g.nv - 1) |-> 0]
    /\ root = [i \in 0 .. (2 * g.nv - 1) |-> 0]
    /\ blocked = [i \in 0 .. (2 * g.nv - 1) |-> FALSE]
    /\ dual = [i \in 0 .. (2 * g.nv - 1) |-> 0]
    /\ slack = [e \in 0 .. (g.ne - 1) |-> 0]
    /\ mate = [i \in 0 .. (2 * g.nv - 1) |-> 0]
    /\ perfect \in BOOLEAN
    /\ forestList = <<>>
    /\ visited = [i \in 0 .. (2 * g.nv - 1) |-> 0]
    /\ pc = "idle"
    /\ call = "none"
    /\ cost = [e \in 0 .. (g.ne - 1) |-> 0]
    /\ ret = [kind |-> "none"]
    /\ hist = [calls |-> 0, iters |-> 0, steps |-> 0, bsize |-> 0,
               exact |-> TRUE, freeOk |-> TRUE, event |-> "constructed", prev |-> "none",
               prevCost |-> [e \in 0 .. (g.ne - 1) |-> 0]]

\* one call on every small graph and on the scenarios, with every cost
\* vector; SolveMaximumMatching alone on the graphs with one vertex more
Init ==
    \/ /\ \E g \in SmallGraphs \cup {sc[1] : sc \in Scenarios} : Constructed(g)
       /\ env = [calls |-> MaxCalls, lo |-> 0 - NegCosts, hi |-> MaxCost,
                 mcpm |-> TRUE]
    \/ /\ \E g \in GraphsOn(MaxN + 1) : Constructed(g)
       /\ env = [calls |-> MaxCalls, lo |-> 0, hi |-> 0, mcpm |-> FALSE]

\* the same instance is called several times
InitReuse ==
    /\ \E g \in SmallGraphs : Constructed(g)
    /\ env = [calls |-> ReuseCalls, lo |-> 0, hi |-> ReuseMaxCost,
              mcpm |-> TRUE]

NewCall(fn) == [calls |-> hist.calls + 1, iters |-> 0, steps |-> 0,
                bsize |-> 0, exact |-> TRUE, freeOk |-> TRUE, event |-> fn,
                prev |-> ret.kind,
                prevCost |-> cost]
Note(s, ev) == [hist EXCEPT !.bsize = s.bsize, !.exact = s.exact,
                            !.freeOk = s.freeOk, !.event = ev,
                            !.steps = @ + 1]

\* line 81-82: SolveMaximumMatching() is entered and calls Clear()
CallSolveMaximumMatching ==
    /\ pc = "idle" /\ hist.calls < env.calls
    /\ Commit(Clear(St))
    /\ pc' = "grow_reset" /\ call' = "max"
    /\ cost' = [e \in EdgeIdx |-> 0]
    /\ ret' = [kind |-> "running"]
    /\ hist' = NewCall("max")
    /\ UNCHANGED <<G, env>>

\* line 38-39: SolveMinimumCostPerfectMatching(cost) is entered and calls
\* SolveMaximumMatching(), which calls Clear()
CallSolveMinimumCostPerfectMatching ==
    /\ pc = "idle" /\ hist.calls < env.calls /\ env.mcpm
    /\ \E c \in CostVectors(G, env.lo, env.hi) :
            cost' = [e \in EdgeIdx |-> Dbl(c[e])]
    /\ Commit(Clear(St))
    /\ pc' = "grow_reset" /\ call' = "mcpm_max"
    /\ ret' = [kind |-> "running"]
    /\ hist' = NewCall("mcpm")
    /\ UNCHANGED <<G, env>>

\* Grow's calls of Reset(): line 94, and line 143 after an Augment
GrowReset ==
    /\ pc \in {"grow_reset", "grow_augmented"}
    /\ Commit(Reset(St))
    /\ pc' = "grow"
    /\ hist' = Note(St, "reset")
    /\ UNCHANGED <<G, env, call, cost, ret>>

\* one iteration of the loop of line 98
GrowStepTo(r) ==
    /\ Commit(r.st)
    /\ pc' = IF r.ev = "augment" THEN "grow_augmented" ELSE "grow"
    /\ hist' = Note(r.st, r.ev)

GrowStep ==
    /\ pc = "grow" /\ forestList # <<>>
    /\ GrowStepTo(GrowScan(St))
    /\ UNCHANGED <<G, env, call, cost, ret>>

\* lines 165-169: the forest list is empty, Grow returns
GrowEnd ==
    /\ pc = "grow" /\ forestList = <<>>
    /\ Commit(CheckPerfect(St))
    /\ pc' = IF call = "mcpm_pd" THEN "update" ELSE "retrieve"
    /\ hist' = Note(St, "grown")
    /\ UNCHANGED <<G, env, call, cost, ret>>

\* line 84: SolveMaximumMatching returns RetrieveMatching()
ReturnMaximumMatching ==
    /\ pc = "retrieve" /\ call \in {"max", "mcpm_max"}
    /\ LET s == RetrieveMatching(St)
       IN  /\ Commit(s)
           /\ hist' = Note(s, "retrieved")
           /\ IF call = "max"
              THEN /\ ret' = [kind |-> "matching", matching |-> MatchedFrom(s, 0)]
                   /\ pc' = "idle" /\ call' = "none"
              ELSE /\ ret' = ret
                   /\ pc' = "check" /\ call' = call
    /\ UNCHANGED <<G, env, cost>>

\* lines 40-41
Throw ==
    /\ pc = "check" /\ ~perfect
    /\ pc' = "idle" /\ call' = "none"
    /\ ret' = [kind |-> "error"]
    /\ hist' = Note(St, "throw")
    /\ UNCHANGED <<G, env, engine, cost>>

\* faulty variant: line 43 is left out, what the maximum-matching pass left in the
\* engine is not cleared
Prepare_NoClear ==
    /\ pc = "check" /\ perfect
    /\ LET s2 == [St EXCEPT !.slack = cost]
           s3 == PositiveCosts(s2)
       IN  Commit([s3 EXCEPT !.perfect = FALSE])
    /\ pc' = "heuristic" /\ call' = "mcpm_pd"
    /\ hist' = Note(St, "prepared")
    /\ UNCHANGED <<G, env, cost, ret>>

\* faulty variant: the cost vector is copied into slack before Clear
Prepare_SlackFirst ==
    /\ pc = "check" /\ perfect
    /\ LET s1 == Clear([St EXCEPT !.slack = cost])
           s3 == PositiveCosts(s1)
       IN  Commit([s3 EXCEPT !.perfect = FALSE])
    /\ pc' = "heuristic" /\ call' = "mcpm_pd"
    /\ hist' = Note(St, "prepared")
    /\ UNCHANGED <<G, env, cost, ret>>

\* lines 43-51
Prepare ==
    /\ pc = "check" /\ perfect
    /\ LET s1 == Clear(St)
           s2 == [s1 EXCEPT !.slack = cost]
           s3 == PositiveCosts(s2)
       IN  Commit([s3 EXCEPT !.perfect = FALSE])
    /\ pc' = "heuristic" /\ call' = "mcpm_pd"
    /\ hist' = Note(St, "prepared")
    /\ UNCHANGED <<G, env, cost, ret>>

\* line 55
HeuristicStep ==
    /\ pc = "heuristic"
    /\ Commit(Heuristic(St))
    /\ pc' = "grow_reset"
    /\ hist' = Note(St, "heuristic")
    /\ UNCHANGED <<G, env, call, cost, ret>>

\* line 58
UpdateStep ==
    /\ pc = "update"
    /\ LET s == UpdateDualCosts(St)
       IN  Commit(s) /\ hist' = Note(s, "update")
    /\ pc' = "reset"
    /\ UNCHANGED <<G, env, call, cost, ret>>

\* lines 60 and 52: Reset(), then the loop test
ResetStep ==
    /\ pc = "reset"
    /\ Commit(Reset(St))
    /\ pc' = IF perfect THEN "retrieve" ELSE "heuristic"
    /\ hist' = [Note(St, "reset") EXCEPT !.iters = @ + 1]
    /\ UNCHANGED <<G, env, call, cost, ret>>

\* lines 63-76
ReturnMinimumCostPerfectMatching ==
    /\ pc = "retrieve" /\ call = "mcpm_pd"
    /\ LET s == RetrieveMatching(St)
           matching == MatchedFrom(s, 0)
       IN  /\ Commit(s)
           /\ ret' = [kind |-> "pair", matching |-> matching,
                      obj |-> SumCost(cost, matching, 1),
                      dualObj |-> DualObj(s)]
           /\ hist' = Note(s, "retrieved")
    /\ pc' = "idle" /\ call' = "none"
    /\ UNCHANGED <<G, env, cost>>

Next ==
    \/ CallSolveMaximumMatching
    \/ CallSolveMinimumCostPerfectMatching
    \/ GrowReset
    \/ GrowStep
    \/ GrowEnd
    \/ ReturnMaximumMatching
    \/ Throw
    \/ Prepare
    \/ HeuristicStep
    \/ UpdateStep
    \/ ResetStep
    \/ ReturnMinimumCostPerfectMatching

Spec == Init /\ [][Next]_vars
SpecReuse == InitReuse /\ [][Next]_vars


(***************************************************************************)
(* Reference definitions the claims are stated against: the matchings of   *)
(* G by exhaustion.                                                       *)
(***************************************************************************)
\* the vertex sets are matched by recursion on their least vertex
Least(U) == CHOOSE v \in U : \A w \in U : v <= w
Nbrs(U, v) == {w \in U \ {v} : AdjMat(v, w)}

\* whether the subgraph induced by U has a perfect matching
RECURSIVE PMExists(_)
PMExists(U) ==
    \/ U = {}
    \/ LET v == Least(U) IN \E w \in Nbrs(U, v) : PMExists(U \ {v, w})

\* the least c-cost of a perfect matching of the subgraph induced by U
RECURSIVE MinPMCost(_, _)
MinPMCost(c, U) ==
    IF U = {} THEN 0
    ELSE LET v == Least(U)
         IN  MinOf({c[GetEdgeIndex(v, w)] + MinPMCost(c, U \ {v, w}) :
                        w \in {x \in Nbrs(U, v) : PMExists(U \ {v, x})}})

\* the largest number of edges of a matching of the subgraph induced by U
RECURSIVE MaxMatchingSize(_)
MaxMatchingSize(U) ==
    IF U = {} THEN 0
    ELSE LET v == Least(U)
             opts == {MaxMatchingSize(U \ {v})}
                        \cup {1 + MaxMatchingSize(U \ {v, w}) : w \in Nbrs(U, v)}
         IN  CHOOSE k \in opts : \A j \in opts : j <= k

HasPerfectMatching == PMExists(Orig)

Touches(e, v) == GetEdge(e)[1] = v \/ GetEdge(e)[2] = v
IsMatchingSet(S) ==
    \A v \in Orig : Cardinality({e \in S : Touches(e, v)}) <= 1
IsPerfectSet(S) ==
    \A v \in Orig : Cardinality({e \in S : Touches(e, v)}) = 1
RECURSIVE SetCost(_, _)
SetCost(c, S) ==
    IF S = {} THEN 0
    ELSE LET e == CHOOSE x \in S : TRUE IN c[e] + SetCost(c, S \ {e})

Returned == pc = "idle" /\ ret.kind = "pair"
ReturnedMax == pc = "idle" /\ ret.kind = "matching"
Threw == pc = "idle" /\ ret.kind = "error"
NoRepeat(lst) == \A i, j \in 1 .. Len(lst) : lst[i] = lst[j] => i = j

\* sanity of the number representation: no halving of an odd number
ExactArithmetic == hist.exact

\* C1: the returned edge list costs no more than any perfect matching of G,
\* and on K4 with costs (1,2,3,4,5,6) the returned objective is 7.
C1_MinimumCost ==
    Returned =>
        /\ SumCost(cost, ret.matching, 1) <= MinPMCost(cost, Orig)
        /\ (G = K4 /\ cost = [e \in EdgeIdx |-> Dbl(K4Cost[e])]) => ret.obj = Dbl(7)

C1_Witness ==
    /\ Returned /\ G = K4 /\ cost = [e \in EdgeIdx |-> Dbl(K4Cost[e])]
    /\ ret.obj = Dbl(7) /\ hist.bsize >= 3

\* C2: on normal return the returned list is a perfect matching of G (every
\* original vertex is an endpoint of exactly one returned edge, has a mate,
\* and its mate's mate is itself), and the returned objective is the sum of
\* the caller's cost over the returned edges.
C2_PerfectAndObjective ==
    Returned =>
        /\ NoRepeat(ret.matching)
        /\ Elems(ret.matching) \subseteq EdgeIdx
        /\ IsPerfectSet(Elems(ret.matching))
        /\ \A v \in Orig : mate[v] # -1 /\ mate[mate[v]] = v
        /\ ret.obj = SetCost(cost, Elems(ret.matching))

C2_Witness ==
    /\ Returned /\ n >= 4 /\ hist.bsize >= 3
    /\ \E e \in EdgeIdx : cost[e] > 0 /\ e \in Elems(ret.matching)

\* C3: the no-perfect-matching error is raised if and only if G has no
\* perfect matching, right after the preliminary maximum-matching pass:
\* the cost vector has not been copied into slack, no primal-dual phase has
\* run, and the primal-dual loop is entered only on graphs that have one.
C3_ErrorIffNoPerfectMatching ==
    /\ pc = "check" => (perfect <=> HasPerfectMatching)
    /\ Threw => /\ ~HasPerfectMatching
                /\ hist.iters = 0
                /\ \A e \in EdgeIdx : slack[e] = 0
    /\ Returned => HasPerfectMatching
    /\ call = "mcpm_pd" => HasPerfectMatching

C3_Witness ==
    /\ Threw /\ G = K3
    /\ \E e \in EdgeIdx : cost[e] # 0

\* C4: SolveMaximumMatching returns pairwise vertex-disjoint edges, as many
\* as a maximum matching of G has.
C4_MaximumMatching ==
    ReturnedMax =>
        /\ NoRepeat(ret.matching)
        /\ Elems(ret.matching) \subseteq EdgeIdx
        /\ IsMatchingSet(Elems(ret.matching))
        /\ Len(ret.matching) = MaxMatchingSize(Orig)

\* a return with a blossom contracted on the way and an unmatched blossom
\* left unexpanded
C4_Witness ==
    /\ ReturnedMax /\ hist.bsize >= 3
    /\ \E b \in Pseudo : active[b] /\ mate[b] = -1
    /\ Len(ret.matching) >= 1

\* C5: what SolveMinimumCostPerfectMatching(cost) returns (or that it
\* throws) is what it returns on a newly constructed Matching of the same
\* graph with the same cost vector, whatever calls the instance served before.
C5_FunctionOfGraphAndCost ==
    (pc = "idle" /\ ret.kind \in {"pair", "error"}) =>
        LET r == SolveMinimumCostPerfectMatching(NewMatching, cost)
        IN  /\ ret.kind = r.kind
            /\ ret.kind = "pair" =>
                  ret.matching = r.matching /\ ret.obj = r.obj

\* a second call returns after a successful call with another cost vector
C5_Witness ==
    /\ Returned /\ hist.calls = 2 /\ hist.prev = "pair"
    /\ hist.prevCost # cost /\ hist.bsize >= 3

\* C6: after a successful SolveMinimumCostPerfectMatching the primal
\* objective (the sum of cost over the returned edges) equals the dual
\* objective the engine computes at lines 69-74.
C6_PrimalEqualsDual == Returned => ret.obj = ret.dualObj

\* the shift PositiveCosts applied to every cost: the least cost if negative
MinEdge == MinOf({0} \cup {cost[e] : e \in EdgeIdx})

\* what the code computes: the dual objective is that of the costs after
\* PositiveCosts, so the primal objective is the dual objective plus n/2
\* times the least cost entry when that is negative; with no negative cost
\* the two objectives are equal.
C6_PrimalEqualsShiftedDual ==
    Returned => Dbl(ret.obj) = Dbl(ret.dualObj) + n * MinEdge

C6_Witness ==
    /\ Returned /\ MinEdge < 0 /\ n >= 4 /\ ret.dualObj > 0
    /\ \E b \in Pseudo : blocked[b] /\ dual[b] > 0

\* the phase boundaries of the primal-dual loop and the returns
AfterHeuristic == call = "mcpm_pd" /\ pc = "grow_reset"
AfterGrow == call = "mcpm_pd" /\ pc = "update"
AfterUpdateDualCosts == call = "mcpm_pd" /\ pc = "reset"
AfterReset == call = "mcpm_pd" /\ pc \in {"heuristic", "retrieve"} /\ hist.iters > 0
PhaseBoundary == AfterHeuristic \/ AfterGrow \/ AfterUpdateDualCosts \/ AfterReset
Stable == PhaseBoundary \/ Returned \/ ReturnedMax

\* C7 as stated: at every stable state mate[v] is -1 or mate[mate[v]] = v,
\* for every index v.
C7_MateSymmetry ==
    Stable => \A v \in V2 : mate[v] = -1 \/ mate[mate[v]] = v

\* C7 amended: at every stable state the matching is symmetric between the
\* outermost vertices (mate[] of an outermost vertex names an original
\* vertex inside its partner): for every active v with outer[v] = v and
\* mate[v] # -1, the outermost w = outer[mate[v]] has outer[mate[w]] = v;
\* and at return from either Solve call every original vertex v has
\* mate[v] = -1 or mate[mate[v]] = v.
C7_OuterMateSymmetry ==
    /\ Stable =>
          \A v \in V2 : (active[v] /\ outer[v] = v /\ mate[v] # -1) =>
              LET w == outer[mate[v]]
              IN  w # v /\ mate[w] # -1 /\ outer[mate[w]] = v
    /\ (Returned \/ ReturnedMax) =>
          \A v \in Orig : mate[v] = -1 \/ mate[mate[v]] = v

\* a blocked blossom is matched as one vertex at a phase boundary
C7_Witness ==
    /\ PhaseBoundary
    /\ \E b \in Pseudo : /\ active[b] /\ outer[b] = b /\ blocked[b]
                          /\ mate[b] # -1 /\ mate[mate[b]] # b

\* C8: from the first Heuristic call to the return no slack is negative.
C8_DualFeasibility ==
    (call = "mcpm_pd" \/ Returned) => \A e \in EdgeIdx : slack[e] >= 0

\* after a dual update with a positive step, on a cost vector with a
\* negative entry
C8_Witness ==
    /\ AfterUpdateDualCosts /\ MinEdge < 0
    /\ \E v \in V2 : dual[v] > 0
    /\ \E e \in EdgeIdx : slack[e] = 0 /\ cost[e] - MinEdge > 0

\* C9: a call takes a bounded number of steps (its iterations of the
\* primal-dual loop are at most n*n, its steps at most StepBound), every
\* Grow ends with an empty forest list, and on the 5-cycle with unit costs
\* plus a vertex joined by two cost-10 edges the call returns objective 12
\* after contracting a blossom of 5 vertices.
StepBound == 4 * (n + 1) * (n + 1)
C9_Terminates ==
    /\ hist.steps <= StepBound
    /\ hist.iters <= n * n
    /\ call # "none" => pc # "idle"
    /\ AfterGrow => forestList = <<>>
    /\ (/\ Returned /\ G = Cycle5Plus
        /\ cost = [e \in EdgeIdx |-> Dbl(Cycle5PlusCost[e])])
          => (ret.obj = Dbl(12) /\ hist.bsize = 5)

C9_Witness ==
    /\ Returned /\ G = Cycle5Plus
    /\ cost = [e \in EdgeIdx |-> Dbl(Cycle5PlusCost[e])]
    /\ ret.obj = Dbl(12) /\ hist.bsize = 5

\* deep[s] of the members s of a list, concatenated
RECURSIVE ConcatDeep(_, _)
ConcatDeep(sh, k) ==
    IF k > Len(sh) THEN <<>> ELSE deep[sh[k]] \o ConcatDeep(sh, k + 1)

\* C10: every active pseudo-vertex b has an odd number, at least 3, of
\* shallow members, and deep[b] is the disjoint union of their deep lists.
C10_BlossomWellFormed ==
    \A b \in Pseudo : active[b] =>
        /\ Len(shallow[b]) >= 3 /\ Len(shallow[b]) % 2 = 1
        /\ deep[b] = ConcatDeep(shallow[b], 1)
        /\ NoRepeat(deep[b])

\* a blocked blossom nested in an active blossom during the primal-dual loop
C10_Witness ==
    /\ call = "mcpm_pd"
    /\ \E b \in Pseudo : /\ active[b] /\ Len(deep[b]) > Len(shallow[b])
                          /\ \E k \in 1 .. Len(shallow[b]) :
                                /\ shallow[b][k] >= n
                                /\ active[shallow[b][k]]
                                /\ blocked[shallow[b][k]]

\* the primal-dual loop before the final RetrieveMatching
InLoop == call = "mcpm_pd" /\ pc # "retrieve"

\* a step of the loop other than UpdateDualCosts and than a Grow iteration
\* that contracts a blossom
KeepsBlossoms == InLoop /\ pc # "update" /\ hist'.event # "blossom"

BlockedArePositive ==
    PhaseBoundary => \A b \in Pseudo : blocked[b] => (active[b] /\ dual[b] > 0)

\* a blocked blossom leaves only in the UpdateDualCosts step that brings its
\* dual to zero
LeavesAtZeroDual ==
    \A b \in Pseudo :
        (InLoop /\ blocked[b] /\ active[b] /\ (~active'[b] \/ ~blocked'[b])) =>
            (pc = "update" /\ dual[b] > 0 /\ dual'[b] = 0)

C12_FreeList ==
    hist.calls > 0 =>
        /\ NoRepeat(free)
        /\ Elems(free) = {b \in Pseudo : ~active[b]}
        /\ hist.freeOk

\* an index B that Blossom took in this call (shallow[B] is not empty) was
\* given back and is free again, while another blossom is active
C12_Witness ==
    /\ hist.calls > 0
    /\ \E b, B \in Pseudo :
            /\ active[b] /\ ~active[B] /\ shallow[B] # <<>>
            /\ B \in Elems(free)

\* the state in which the primal-dual loop starts, before the first Heuristic
LoopStart == call = "mcpm_pd" /\ pc = "heuristic" /\ hist.iters = 0

Reinitialized ==
    /\ \A b \in Pseudo : ~active[b] /\ ~blocked[b]
    /\ \A v \in V2 : outer[v] = v /\ mate[v] = -1 /\ dual[v] = 0

\* C13 as stated: the primal-dual loop starts with no pseudo-vertex active
\* or blocked, outer[v] = v, mate[v] = -1, dual[v] = 0 for every v, and
\* slack[e] equal to the input cost[e] for every edge e.
C13_LoopStartsReinitialized ==
    LoopStart => (Reinitialized /\ \A e \in EdgeIdx : slack[e] = cost[e])

\* C13 amended: the same, with slack[e] equal to cost[e] minus the least
\* cost when that is negative (PositiveCosts, line 48), and to cost[e] when
\* no cost is negative.
C13_LoopStartsShifted ==
    LoopStart => (Reinitialized /\ \A e \in EdgeIdx : slack[e] = cost[e] - MinEdge)

\* the loop starts after a preliminary pass that contracted a blossom, on a
\* cost vector with a negative entry
C13_Witness ==
    /\ LoopStart /\ MinEdge < 0 /\ hist.bsize >= 3
    /\ \E e \in EdgeIdx : cost[e] > 0

=============================================================================
